---- MODULE Spec2Model ----
(***************************************************************************)
(* B+ tree index of src/src/btree.cpp (BadgerDB BTreeIndex): insertEntry   *)
(* with leaf and internal splits, and the range-scan state machine         *)
(* startScan / scanNext / endScan.                                         *)
(*                                                                         *)
(* Pages are records; arrays are functions over the C index range, so the  *)
(* index arithmetic of the source is kept literally.  A store beyond the   *)
(* declared length of keyArray / pageNoArray, and the use of page content  *)
(* that was never written, are undefined behaviour: the variable ub        *)
(* records it and the model explores no step after it.                     *)
(***************************************************************************)
EXTENDS Integers, Sequences, FiniteSets, TLC

\* ------------------------------------------------------------------ bounds
\* leafOccupancy / nodeOccupancy stand for INTARRAYLEAFSIZE and
\* INTARRAYNONLEAFSIZE, scaled down so that splits happen with few keys.
leafOccupancy == 3
nodeOccupancy == 1
\* keys are drawn from 1..MaxKey, scan bounds from 0..MaxKey+1
MaxKey == 6

Keys == 1..MaxKey
ScanVals == 0..(MaxKey + 1)
PageIds == 1..(MaxKey + 4)
INVALID_NUMBER == 0
Operator == {"LT", "LTE", "GTE", "GT"}
\* rid stored with key k by the caller (RecordId of the tuple holding k)
RidOf(k) == 100 + k
\* what a read before the start of keyArray may yield: a value below every
\* scan bound and a value above every scan bound
GarbageKeys == {0 - 1, MaxKey + 2}
\* numOccupied as found on a page just returned by allocPage
FreshNumOccupied == {0, 1}

VARIABLES
    pages,          \* page id -> page content (the index file seen through the buffer manager)
    nextPage,       \* next page id the file allocates
    rootPageNo,     \* IndexMetaInfo::rootPageNo on the header page
    metaInfo,       \* IndexMetaInfo::relationName, attrByteOffset, attrType on the header page
    rootPageNum,    \* BTreeIndex::rootPageNum
    onlyOneRoot,    \* BTreeIndex::onlyOneRoot
    scanExecuting,  \* BTreeIndex::scanExecuting
    lowValInt, highValInt, lowOp, highOp,
    currentPageNum, \* page of the scan position
    nextEntry,      \* slot of the scan position, -1 when exhausted
    ub,             \* "no", or the kind of undefined behaviour executed
    inserted,       \* ghost: keys given to insertEntry so far
    emitted,        \* ghost: rids handed out by scanNext since the last startScan
    last,           \* ghost: the last public call, its arguments, outcome and page pins
    before          \* ghost: the call before the last one and its outcome

tree == <<pages, nextPage, rootPageNo, metaInfo, rootPageNum, onlyOneRoot, ub, inserted>>
scan == <<scanExecuting, lowValInt, highValInt, lowOp, highOp, currentPageNum, nextEntry>>
vars == <<pages, nextPage, rootPageNo, metaInfo, rootPageNum, onlyOneRoot, scanExecuting,
          lowValInt, highValInt, lowOp, highOp, currentPageNum, nextEntry,
          ub, inserted, emitted, last, before>>

\* ------------------------------------------------------------ page layout
headerPageNum == 1

\* slot nodeOccupancy of keyArray and slot nodeOccupancy+1 of pageNoArray lie
\* beyond the declared arrays; they are kept to show what an overflowing
\* store wrote.
KeySlots == 0..nodeOccupancy
PageNoSlots == 0..(nodeOccupancy + 1)
LeafSlots == 0..(leafOccupancy - 1)

NoPage ==
    [kind |-> "free", level |-> 0, numOccupied |-> 0,
     keyArray |-> [i \in LeafSlots |-> 0], ridArray |-> [i \in LeafSlots |-> 0],
     pageNoArray |-> [i \in PageNoSlots |-> 0], rightSibPageNo |-> INVALID_NUMBER]

\* struct LeafNodeInt on a page whose numOccupied field holds n
LeafNodeInt(n) ==
    [NoPage EXCEPT !.kind = "leaf", !.numOccupied = n]

\* struct NonLeafNodeInt on a page whose numOccupied field holds n
NonLeafNodeInt(n) ==
    [NoPage EXCEPT !.kind = "nonleaf", !.numOccupied = n,
                   !.keyArray = [i \in KeySlots |-> 0]]

\* Calls on the buffer manager and accesses to the content of a page, in the
\* order the code makes them.  readPage and allocPage pin the page.
readPage(p) == [e |-> "readPage", p |-> p, dirty |-> FALSE]
allocPage(p) == [e |-> "allocPage", p |-> p, dirty |-> FALSE]
unPinPage(p, dirty) == [e |-> "unPinPage", p |-> p, dirty |-> dirty]
load(p) == [e |-> "load", p |-> p, dirty |-> FALSE]
store(p) == [e |-> "store", p |-> p, dirty |-> FALSE]

\* File state threaded through the helpers of insertEntry
File == [pages |-> pages, nextPage |-> nextPage, rootPageNo |-> rootPageNo,
         rootPageNum |-> rootPageNum, onlyOneRoot |-> onlyOneRoot, ub |-> ub,
         pins |-> 0, log |-> <<>>]

\* ------------------------------------------------------------ searchEntry
\* lines 157-164: first i with keyArray[i] >= key, numOccupied if there is none
RECURSIVE searchIndex(_, _, _)
searchIndex(currNode, key, i) ==
    IF i < currNode.numOccupied /\ currNode.keyArray[i] < key
    THEN searchIndex(currNode, key, i + 1)
    ELSE i

\* searchEntry: the leaf for key below root, the internal nodes visited
\* (root first) and the number of pages pinned on the way
RECURSIVE searchEntry(_, _, _, _)
searchEntry(f, key, root, visitedNodes) ==
    IF f.onlyOneRoot
    THEN [pageNo |-> root, visitedNodes |-> visitedNodes, pins |-> 0, log |-> <<>>]
    ELSE LET currNode == f.pages[root]
             i == searchIndex(currNode, key, 0)
             \* lines 153-175: pageNoArray[i] is read after the unPinPage
             here == <<readPage(root), load(root), unPinPage(root, FALSE), load(root)>>
         IN  IF currNode.level = 0
             THEN LET r == searchEntry(f, key, currNode.pageNoArray[i],
                                       Append(visitedNodes, root))
                  IN  [r EXCEPT !.pins = r.pins + 1, !.log = here \o r.log]
             ELSE [pageNo |-> currNode.pageNoArray[i],
                   visitedNodes |-> Append(visitedNodes, root), pins |-> 1,
                   log |-> here]

\* ---------------------------------------------------- new root (both splits)
\* a root split that installs the new root in memory only and leaves the
\* header's rootPageNo as it was
newRootNoHeader(f, propagateUpKey, child0, child1, level, fresh) ==
    LET rootId == f.nextPage
        rootNode == [NonLeafNodeInt(fresh + 1) EXCEPT
                        !.keyArray[0] = propagateUpKey,
                        !.pageNoArray[0] = child0,
                        !.pageNoArray[1] = child1,
                        !.level = level]
    IN  [f EXCEPT !.pages[rootId] = rootNode,
                  !.nextPage = rootId + 1,
                  !.rootPageNum = rootId,
                  !.pins = f.pins + 2,
                  !.log = f.log \o <<allocPage(rootId), store(rootId),
                                     unPinPage(rootId, TRUE),
                                     readPage(headerPageNum),
                                     unPinPage(headerPageNum, FALSE)>>,
                  !.ub = IF fresh = 0 THEN f.ub ELSE "indeterminate"]

\* lines 332-351 and 575-593: a page from allocPage becomes the root; its
\* numOccupied is incremented from whatever the page held (fresh)
newRoot(f, propagateUpKey, child0, child1, level, fresh) ==
    LET rootId == f.nextPage
        rootNode == [NonLeafNodeInt(fresh + 1) EXCEPT
                        !.keyArray[0] = propagateUpKey,
                        !.pageNoArray[0] = child0,
                        !.pageNoArray[1] = child1,
                        !.level = level]
    IN  [f EXCEPT !.pages[rootId] = rootNode,
                  !.nextPage = rootId + 1,
                  !.rootPageNum = rootId,
                  !.rootPageNo = rootId,
                  !.pins = f.pins + 2,
                  !.log = f.log \o <<allocPage(rootId), store(rootId),
                                     unPinPage(rootId, TRUE),
                                     readPage(headerPageNum), store(headerPageNum),
                                     unPinPage(headerPageNum, TRUE)>>,
                  !.ub = IF fresh = 0 THEN f.ub ELSE "indeterminate"]

\* ------------------------------------------------------------ splitInternal
splitCapacityInternal == (nodeOccupancy + 1) \div 2

\* lines 452-495: the incoming key has not been placed yet
splitInternalPlace(s, key, newPageNo, splitFromLeaf) ==
    LET c == s.c
        n == s.n
        i == s.i
        capacity == splitCapacityInternal
    IN  IF s.insertedFlag THEN s
        ELSE IF n.numOccupied > capacity
        THEN LET j == i - (n.numOccupied - 1) - 1
                 c1 == [c EXCEPT !.keyArray[j] = key]
                 c2 == IF splitFromLeaf
                       THEN [c1 EXCEPT !.pageNoArray[j] = c1.pageNoArray[i],
                                       !.pageNoArray[i] = newPageNo]
                       ELSE [c1 EXCEPT !.pageNoArray[j] = newPageNo]
             IN  [s EXCEPT !.c = [c2 EXCEPT !.numOccupied = c2.numOccupied + 1],
                           !.insertedFlag = TRUE]
        ELSE IF n.numOccupied < capacity
        THEN LET n1 == [n EXCEPT !.keyArray[i] = key]
                 n2 == IF splitFromLeaf
                       THEN [n1 EXCEPT !.pageNoArray[i] = c.pageNoArray[i]]
                       ELSE [n1 EXCEPT !.pageNoArray[i] = newPageNo]
                 c1 == IF splitFromLeaf
                       THEN [c EXCEPT !.pageNoArray[i] = newPageNo]
                       ELSE c
             IN  [s EXCEPT !.c = c1,
                           !.n = [n2 EXCEPT !.numOccupied = n2.numOccupied + 1],
                           !.insertedFlag = TRUE]
        ELSE LET n1 == IF splitFromLeaf
                       THEN [n EXCEPT !.pageNoArray[n.numOccupied] = c.pageNoArray[i]]
                       ELSE [n EXCEPT !.pageNoArray[n.numOccupied] = newPageNo]
                 c1 == IF splitFromLeaf
                       THEN [c EXCEPT !.pageNoArray[i] = newPageNo]
                       ELSE c
             IN  [s EXCEPT !.c = c1,
                           !.n = [n1 EXCEPT !.numOccupied = n1.numOccupied + 1],
                           !.propagateUpKey = key,
                           !.insertedFlag = TRUE]

\* lines 498-516: key < keyArray[i], move or keep the i-th old entry
splitInternalLess(s) ==
    LET c == s.c
        n == s.n
        i == s.i
        capacity == splitCapacityInternal
    IN  IF n.numOccupied > capacity
        THEN LET j == i - (n.numOccupied - 1)
             IN  [s EXCEPT !.c = [c EXCEPT !.keyArray[j] = c.keyArray[i],
                                           !.pageNoArray[j] = c.pageNoArray[i]]]
        ELSE IF n.numOccupied < capacity
        THEN [s EXCEPT !.n = [n EXCEPT !.keyArray[i + 1] = c.keyArray[i],
                                       !.pageNoArray[i + 1] = c.pageNoArray[i],
                                       !.numOccupied = n.numOccupied + 1],
                       !.c = [c EXCEPT !.numOccupied = c.numOccupied - 1]]
        ELSE [s EXCEPT !.propagateUpKey = c.keyArray[i],
                       !.n = [n EXCEPT !.pageNoArray[n.numOccupied] = c.pageNoArray[i],
                                       !.numOccupied = n.numOccupied + 1],
                       !.c = [c EXCEPT !.numOccupied = c.numOccupied - 1]]

\* lines 520-541: key >= keyArray[i]
splitInternalGreater(s) ==
    LET c == s.c
        n == s.n
        i == s.i
        capacity == splitCapacityInternal
    IN  IF n.numOccupied > capacity
        THEN LET j == i - (n.numOccupied - 1) - 1
             IN  [s EXCEPT !.c = [c EXCEPT !.keyArray[j] = c.keyArray[i],
                                           !.pageNoArray[j] = c.pageNoArray[i]]]
        ELSE IF n.numOccupied < capacity
        THEN [s EXCEPT !.n = [n EXCEPT !.keyArray[i] = c.keyArray[i],
                                       !.pageNoArray[i] = c.pageNoArray[i],
                                       !.numOccupied = n.numOccupied + 1],
                       !.c = [c EXCEPT !.numOccupied = c.numOccupied - 1]]
        ELSE [s EXCEPT !.propagateUpKey = c.keyArray[i],
                       !.n = [n EXCEPT !.pageNoArray[n.numOccupied] = c.pageNoArray[i],
                                       !.numOccupied = n.numOccupied + 1],
                       !.c = [c EXCEPT !.numOccupied = c.numOccupied - 1]]

\* lines 449-543: the loop over the first nodeOccupancy keys
RECURSIVE splitInternalLoop(_, _, _, _)
splitInternalLoop(s, key, newPageNo, splitFromLeaf) ==
    IF s.i < nodeOccupancy
    THEN LET s1 == IF key < s.c.keyArray[s.i]
                   THEN splitInternalLess(
                            splitInternalPlace(s, key, newPageNo, splitFromLeaf))
                   ELSE splitInternalGreater(s)
         IN  splitInternalLoop([s1 EXCEPT !.i = s.i + 1], key, newPageNo, splitFromLeaf)
    ELSE s

\* lines 545-562: the last child pointer, and a key greater than every old key
splitInternalTail(s, key, newPageNo, splitFromLeaf) ==
    LET c0 == s.c
        c == [c0 EXCEPT !.pageNoArray[c0.numOccupied] = c0.pageNoArray[nodeOccupancy]]
        N == c.numOccupied
    IN  IF s.insertedFlag THEN c
        ELSE LET c1 == [c EXCEPT !.pageNoArray[N] = key]
                 c2 == IF splitFromLeaf
                       THEN [c1 EXCEPT !.pageNoArray[N + 1] = newPageNo]
                       ELSE [c1 EXCEPT !.pageNoArray[N + 1] = c1.pageNoArray[N],
                                       !.pageNoArray[N] = newPageNo]
             IN  [c2 EXCEPT !.numOccupied = N + 1]

RECURSIVE insertEntryInternal(_, _, _, _, _, _, _)

\* splitInternal, lines 431-595
splitInternal(f, key, pageNo, newPageNo, visitedNodes, splitFromLeaf, fresh) ==
    LET currInternalNode == f.pages[pageNo]
        newPageNoTemp == f.nextPage
        newInternalNode == [NonLeafNodeInt(0) EXCEPT !.level = currInternalNode.level]
        s == splitInternalLoop(
                 [c |-> currInternalNode, n |-> newInternalNode,
                  insertedFlag |-> FALSE, propagateUpKey |-> 0, i |-> 0],
                 key, newPageNo, splitFromLeaf)
        c == splitInternalTail(s, key, newPageNo, splitFromLeaf)
        f1 == [f EXCEPT !.pages[pageNo] = c,
                        !.pages[newPageNoTemp] = s.n,
                        !.nextPage = newPageNoTemp + 1,
                        !.pins = f.pins + 2,
                        \* line 444: propagateUpKey is declared without a value;
                        \* keys are positive, 0 means the loop assigned none
                        !.ub = IF s.propagateUpKey = 0 THEN "indeterminate" ELSE f.ub,
                        !.log = f.log \o <<readPage(pageNo), allocPage(newPageNoTemp),
                                           store(newPageNoTemp), load(pageNo),
                                           store(pageNo), unPinPage(pageNo, TRUE),
                                           unPinPage(newPageNoTemp, TRUE)>>]
    IN  IF Len(visitedNodes) # 0
        THEN insertEntryInternal(f1, s.propagateUpKey, visitedNodes[Len(visitedNodes)],
                                 newPageNoTemp,
                                 SubSeq(visitedNodes, 1, Len(visitedNodes) - 1),
                                 FALSE, fresh)
        ELSE newRoot(f1, s.propagateUpKey, newPageNoTemp, pageNo, 0, fresh)

\* lines 386-399: shift the entries greater than key up by one
RECURSIVE internalShift(_, _, _)
internalShift(c, key, i) ==
    LET N == c.numOccupied
    IN  IF i < N /\ ~(key > c.keyArray[N - 1 - i])
        THEN internalShift([c EXCEPT !.pageNoArray[N - 1 - i + 1] = c.pageNoArray[N - 1 - i],
                                     !.keyArray[N - 1 - i + 1] = c.keyArray[N - 1 - i]],
                           key, i + 1)
        ELSE [c |-> c, i |-> i]

\* the new child is stored at the position of the key, left of it, also
\* when it comes from a leaf split
internalPlaceLeft(currInternalNode, key, newPageNo, splitFromLeaf) ==
    LET N == currInternalNode.numOccupied
        c0 == [currInternalNode EXCEPT
                  !.pageNoArray[N + 1] = currInternalNode.pageNoArray[N]]
        r == internalShift(c0, key, 0)
    IN  [r.c EXCEPT !.pageNoArray[N - r.i] = newPageNo,
                    !.keyArray[N - r.i] = key,
                    !.numOccupied = N + 1]

\* the new child is stored right of the key, also when it comes from the
\* split of an internal node
internalPlaceRight(currInternalNode, key, newPageNo, splitFromLeaf) ==
    LET N == currInternalNode.numOccupied
        c0 == [currInternalNode EXCEPT
                  !.pageNoArray[N + 1] = currInternalNode.pageNoArray[N]]
        r == internalShift(c0, key, 0)
    IN  [r.c EXCEPT !.pageNoArray[N - r.i] = r.c.pageNoArray[N - r.i + 1],
                    !.keyArray[N - r.i] = key,
                    !.pageNoArray[N - r.i + 1] = newPageNo,
                    !.numOccupied = N + 1]

\* lines 381-415: the node after key and newPageNo were put in place
internalPlace(currInternalNode, key, newPageNo, splitFromLeaf) ==
    LET N == currInternalNode.numOccupied
        c0 == [currInternalNode EXCEPT
                  !.pageNoArray[N + 1] = currInternalNode.pageNoArray[N]]
        r == internalShift(c0, key, 0)
        c1 == r.c
        i == r.i
    IN  IF splitFromLeaf
        THEN [c1 EXCEPT !.pageNoArray[N - i] = c1.pageNoArray[N - i + 1],
                        !.keyArray[N - i] = key,
                        !.pageNoArray[N - i + 1] = newPageNo,
                        !.numOccupied = N + 1]
        ELSE [c1 EXCEPT !.pageNoArray[N - i] = newPageNo,
                        !.keyArray[N - i] = key,
                        !.numOccupied = N + 1]

\* the node is split only when it holds more than nodeOccupancy keys
internalFull(N) == N > nodeOccupancy

\* insertEntryInternal, lines 365-419.  With numOccupied = nodeOccupancy the
\* stores at pageNoArray[numOccupied+1] and keyArray[numOccupied] fall outside
\* the arrays.
insertEntryInternal(f, key, pageNo, newPageNo, visitedNodes, splitFromLeaf, fresh) ==
    LET currInternalNode == f.pages[pageNo]
        N == currInternalNode.numOccupied
        f0 == [f EXCEPT !.pins = f.pins + 1,
                        !.log = f.log \o <<readPage(pageNo), load(pageNo)>>]
    IN  IF internalFull(N)
        THEN splitInternal([f0 EXCEPT !.log = f0.log \o <<unPinPage(pageNo, FALSE)>>],
                           key, pageNo, newPageNo, visitedNodes, splitFromLeaf, fresh)
        ELSE LET c2 == internalPlace(currInternalNode, key, newPageNo, splitFromLeaf)
             IN  [f0 EXCEPT !.pages[pageNo] = c2,
                            !.log = f0.log \o <<store(pageNo), unPinPage(pageNo, TRUE)>>,
                            !.ub = IF N + 1 > nodeOccupancy THEN "oob" ELSE f.ub]

\* ---------------------------------------------------------------- splitLeaf
splitCapacityLeaf == (leafOccupancy + 1) \div 2

\* lines 258-289: key >= keyArray[leafOccupancy-1-i]; brk is the break
splitLeafGreater(s, key, rid) ==
    LET L == leafOccupancy
        capacity == splitCapacityLeaf
        i == s.i
        s1 == IF s.insertedFlag THEN s
              ELSE IF s.n.numOccupied + capacity >= L + 1
              THEN [s EXCEPT !.c = [s.c EXCEPT !.numOccupied = s.c.numOccupied + 1,
                                               !.ridArray[L - i] = rid,
                                               !.keyArray[L - i] = key],
                             !.insertedFlag = TRUE]
              ELSE [s EXCEPT !.n = [s.n EXCEPT !.numOccupied = s.n.numOccupied + 1,
                                               !.ridArray[L + 1 - capacity - 1 - i] = rid,
                                               !.keyArray[L + 1 - capacity - 1 - i] = key],
                             !.insertedFlag = TRUE]
    IN  IF s1.n.numOccupied + capacity >= L + 1
        THEN [s1 EXCEPT !.brk = TRUE]
        ELSE [s1 EXCEPT
                 !.c = [s1.c EXCEPT !.numOccupied = s1.c.numOccupied - 1],
                 !.n = [s1.n EXCEPT
                           !.ridArray[L + 1 - capacity - 2 - i] = s1.c.ridArray[L - i - 1],
                           !.keyArray[L + 1 - capacity - 2 - i] = s1.c.keyArray[L - i - 1],
                           !.numOccupied = s1.n.numOccupied + 1]]

\* entries moved to the new leaf lose their rid
splitLeafLessDropsRid(s, key, rid) ==
    LET L == leafOccupancy
        capacity == splitCapacityLeaf
        i == s.i
    IN  IF s.n.numOccupied + capacity < L + 1
        THEN [s EXCEPT
                 !.c = [s.c EXCEPT !.numOccupied = s.c.numOccupied - 1],
                 !.n = [s.n EXCEPT
                           !.keyArray[L + 1 - capacity - 1 - i] = s.c.keyArray[L - 1 - i],
                           !.numOccupied = s.n.numOccupied + 1]]
        ELSE LET c1 == [s.c EXCEPT !.keyArray[L - i] = s.c.keyArray[L - 1 - i],
                                   !.ridArray[L - i] = s.c.ridArray[L - 1 - i]]
             IN  IF L = i + 1
                 THEN [s EXCEPT !.c = [c1 EXCEPT !.numOccupied = c1.numOccupied + 1,
                                                 !.ridArray[L - 1 - i] = rid,
                                                 !.keyArray[L - 1 - i] = key],
                                !.insertedFlag = TRUE]
                 ELSE [s EXCEPT !.c = c1]

\* lines 293-317: key < keyArray[leafOccupancy-1-i]
splitLeafLess(s, key, rid) ==
    LET L == leafOccupancy
        capacity == splitCapacityLeaf
        i == s.i
    IN  IF s.n.numOccupied + capacity < L + 1
        THEN [s EXCEPT
                 !.c = [s.c EXCEPT !.numOccupied = s.c.numOccupied - 1],
                 !.n = [s.n EXCEPT
                           !.ridArray[L + 1 - capacity - 1 - i] = s.c.ridArray[L - 1 - i],
                           !.keyArray[L + 1 - capacity - 1 - i] = s.c.keyArray[L - 1 - i],
                           !.numOccupied = s.n.numOccupied + 1]]
        ELSE LET c1 == [s.c EXCEPT !.keyArray[L - i] = s.c.keyArray[L - 1 - i],
                                   !.ridArray[L - i] = s.c.ridArray[L - 1 - i]]
             IN  IF L = i + 1
                 THEN [s EXCEPT !.c = [c1 EXCEPT !.numOccupied = c1.numOccupied + 1,
                                                 !.ridArray[L - 1 - i] = rid,
                                                 !.keyArray[L - 1 - i] = key],
                                !.insertedFlag = TRUE]
                 ELSE [s EXCEPT !.c = c1]

\* lines 256-319
RECURSIVE splitLeafLoop(_, _, _)
splitLeafLoop(s, key, rid) ==
    IF s.i < leafOccupancy /\ ~s.brk
    THEN LET s1 == IF key >= s.c.keyArray[leafOccupancy - 1 - s.i]
                   THEN splitLeafGreater(s, key, rid)
                   ELSE splitLeafLess(s, key, rid)
         IN  IF s1.brk THEN s1
             ELSE splitLeafLoop([s1 EXCEPT !.i = s.i + 1], key, rid)
    ELSE s

\* a root split after which the tree still counts as a single leaf
keepOnlyOneRoot(f) == f

\* line 344: the tree no longer consists of one leaf
clearOnlyOneRoot(f) == [f EXCEPT !.onlyOneRoot = FALSE]

\* splitLeaf, lines 236-353
splitLeaf(f, key, rid, pageNo, visitedNodes, fresh) ==
    LET currLeafNode == f.pages[pageNo]
        newPageNo == f.nextPage
        newLeafPage == [LeafNodeInt(0) EXCEPT
                           !.rightSibPageNo = currLeafNode.rightSibPageNo]
        s == splitLeafLoop(
                 [c |-> [currLeafNode EXCEPT !.rightSibPageNo = newPageNo],
                  n |-> newLeafPage, insertedFlag |-> FALSE, brk |-> FALSE, i |-> 0],
                 key, rid)
        propagateUpKey == s.n.keyArray[0]
        f1 == [f EXCEPT !.pages[pageNo] = s.c,
                        !.pages[newPageNo] = s.n,
                        !.nextPage = newPageNo + 1,
                        !.pins = f.pins + 2,
                        !.log = f.log \o <<readPage(pageNo), allocPage(newPageNo),
                                           load(pageNo), store(newPageNo),
                                           store(pageNo), load(newPageNo),
                                           unPinPage(pageNo, TRUE),
                                           unPinPage(newPageNo, TRUE)>>]
    IN  IF Len(visitedNodes) # 0
        THEN insertEntryInternal(f1, propagateUpKey, visitedNodes[Len(visitedNodes)],
                                 newPageNo,
                                 SubSeq(visitedNodes, 1, Len(visitedNodes) - 1),
                                 TRUE, fresh)
        ELSE clearOnlyOneRoot(newRoot(f1, propagateUpKey, pageNo, newPageNo, 1, fresh))

\* ---------------------------------------------------------- insertEntryLeaf
\* a shift that moves the keys and leaves the rids where they are
RECURSIVE leafShiftKeysOnly(_, _, _)
leafShiftKeysOnly(c, key, i) ==
    LET N == c.numOccupied
    IN  IF i < N /\ ~(key > c.keyArray[N - 1 - i])
        THEN leafShiftKeysOnly([c EXCEPT !.keyArray[N - 1 - i + 1] = c.keyArray[N - 1 - i]],
                               key, i + 1)
        ELSE [c |-> c, i |-> i]

\* lines 205-218: shift the entries greater than key up by one
RECURSIVE leafShift(_, _, _)
leafShift(c, key, i) ==
    LET N == c.numOccupied
    IN  IF i < N /\ ~(key > c.keyArray[N - 1 - i])
        THEN leafShift([c EXCEPT !.ridArray[N - 1 - i + 1] = c.ridArray[N - 1 - i],
                                 !.keyArray[N - 1 - i + 1] = c.keyArray[N - 1 - i]],
                       key, i + 1)
        ELSE [c |-> c, i |-> i]

\* the leaf is written but unpinned as clean
leafInsertCallsClean(pageNo) == <<store(pageNo), unPinPage(pageNo, FALSE)>>

\* lines 219-222: the entry is stored and the leaf unpinned dirty
leafInsertCalls(pageNo) == <<store(pageNo), unPinPage(pageNo, TRUE)>>

\* insertEntryLeaf, lines 189-225
insertEntryLeaf(f, key, rid, pageNo, visitedNodes, fresh) ==
    LET currLeafNode == f.pages[pageNo]
        N == currLeafNode.numOccupied
        f0 == [f EXCEPT !.pins = f.pins + 1,
                        !.log = f.log \o <<readPage(pageNo), load(pageNo)>>]
    IN  IF N >= leafOccupancy
        THEN splitLeaf([f0 EXCEPT !.log = f0.log \o <<unPinPage(pageNo, FALSE)>>],
                       key, rid, pageNo, visitedNodes, fresh)
        ELSE LET r == leafShift(currLeafNode, key, 0)
             IN  [f0 EXCEPT !.pages[pageNo] =
                     [r.c EXCEPT !.ridArray[N - r.i] = rid,
                                 !.keyArray[N - r.i] = key,
                                 !.numOccupied = N + 1],
                            !.log = f0.log \o leafInsertCalls(pageNo)]

\* insertEntry, lines 128-133
insertEntry(f, key, rid, fresh) ==
    LET r == searchEntry(f, key, f.rootPageNum, <<>>)
    IN  insertEntryLeaf([f EXCEPT !.pins = f.pins + r.pins,
                                  !.log = f.log \o r.log], key, rid,
                        r.pageNo, r.visitedNodes, fresh)

\* ------------------------------------------------------------------- scans
\* startScan lines 634-652: the first slot of the leaf whose key satisfies the
\* low bound, -1 (the initial nextEntry) when the loop ends without one
RECURSIVE startScanEntry(_, _, _, _)
startScanEntry(leafNode, lowVal, lowOpParm, i) ==
    IF i < leafNode.numOccupied
    THEN IF leafNode.keyArray[i] < lowVal
         THEN startScanEntry(leafNode, lowVal, lowOpParm, i + 1)
         ELSE IF lowOpParm # "GTE" /\ leafNode.keyArray[i] = lowVal
         THEN startScanEntry(leafNode, lowVal, lowOpParm, i + 1)
         ELSE i
    ELSE 0 - 1

\* lines 665-666: the key at the scan position is beyond the high bound
aboveHigh(k, highVal, highOpParm) ==
    k > highVal \/ (k = highVal /\ highOpParm = "LT")

\* a step inside the leaf that does not look at the high bound
nextInLeafUnbounded(k, highVal, highOpParm, entry) == entry + 1

\* a step inside the leaf that stays on the entry just emitted
nextInLeafStays(k, highVal, highOpParm, entry) ==
    IF k = highVal /\ highOpParm # "LTE" THEN 0 - 1
    ELSE IF k <= highVal THEN entry
    ELSE 0 - 1

\* scanNext lines 700-715: the position after the next entry of the same leaf
nextInLeaf(k, highVal, highOpParm, entry) ==
    IF k = highVal /\ highOpParm # "LTE" THEN 0 - 1
    ELSE IF k <= highVal THEN entry + 1
    ELSE 0 - 1

\* scanNext lines 731-751: the position on entering the right sibling
firstOfSibling(sib, highVal, highOpParm) ==
    IF sib.numOccupied = 0 THEN 0 - 1
    ELSE IF sib.keyArray[0] = highVal /\ highOpParm # "LTE" THEN 0 - 1
    ELSE IF sib.keyArray[0] < highVal THEN 0
    ELSE 0 - 1

\* The scan members of BTreeIndex, threaded through the scan operations
Scan == [scanExecuting |-> scanExecuting, lowValInt |-> lowValInt,
         highValInt |-> highValInt, lowOp |-> lowOp, highOp |-> highOp,
         currentPageNum |-> currentPageNum, nextEntry |-> nextEntry]

\* an endScan that returns without clearing the flag
endScanKeepsFlag(sc) ==
    IF ~sc.scanExecuting
    THEN [sc |-> sc, err |-> "ScanNotInitialized"]
    ELSE [sc |-> sc, err |-> "ok"]

\* an endScan without the test of the flag
endScanNoCheck(sc) ==
    [sc |-> [sc EXCEPT !.scanExecuting = FALSE], err |-> "ok"]

\* endScan, lines 760-766
endScan(sc) ==
    IF ~sc.scanExecuting
    THEN [sc |-> sc, err |-> "ScanNotInitialized"]
    ELSE [sc |-> [sc EXCEPT !.scanExecuting = FALSE], err |-> "ok"]

\* a range check that lets low = high + 1 through
scanRangeBadOffByOne(lowValParm, highValParm) == lowValParm > highValParm + 1

\* line 610
scanRangeBad(lowValParm, highValParm) == lowValParm > highValParm

\* an operator check that forgets the high operator
opcodesBadLowOnly(lowOpParm, highOpParm) ==
    lowOpParm # "GT" /\ lowOpParm # "GTE"

\* lines 618-622
opcodesBad(lowOpParm, highOpParm) ==
    (lowOpParm # "GT" /\ lowOpParm # "GTE") \/ (highOpParm # "LT" /\ highOpParm # "LTE")

\* startScan, lines 601-673.  garbage is what the read of keyArray[-1] at
\* line 665 yields when no slot of the leaf satisfied the low bound.
startScan(f, sc, lowValParm, lowOpParm, highValParm, highOpParm, garbage) ==
    LET sc0 == IF sc.scanExecuting THEN endScan(sc).sc ELSE sc
        sc1 == [sc0 EXCEPT !.scanExecuting = TRUE]
        sc2 == [sc1 EXCEPT !.lowValInt = lowValParm, !.highValInt = highValParm]
        r == searchEntry(f, lowValParm, f.rootPageNum, <<>>)
        leafNode == f.pages[r.pageNo]
        entry == startScanEntry(leafNode, lowValParm, lowOpParm, 0)
        sc3 == [sc2 EXCEPT !.lowOp = lowOpParm, !.highOp = highOpParm,
                           !.currentPageNum = r.pageNo, !.nextEntry = entry]
        k == IF entry = 0 - 1 THEN garbage ELSE leafNode.keyArray[entry]
        log == r.log \o <<readPage(r.pageNo), load(r.pageNo),
                          unPinPage(r.pageNo, FALSE)>>
    IN  IF scanRangeBad(lowValParm, highValParm)
        THEN [sc |-> sc1, err |-> "BadScanrange", pins |-> 0, log |-> <<>>]
        ELSE IF opcodesBad(lowOpParm, highOpParm)
        THEN [sc |-> sc2, err |-> "BadOpcodes", pins |-> 0, log |-> <<>>]
        ELSE IF entry = leafNode.numOccupied
        THEN [sc |-> endScan(sc3).sc, err |-> "NoSuchKeyFound", pins |-> r.pins + 1,
              log |-> log]
        ELSE IF aboveHigh(k, highValParm, highOpParm)
        THEN [sc |-> endScan(sc3).sc, err |-> "NoSuchKeyFound", pins |-> r.pins + 1,
              log |-> log]
        ELSE [sc |-> sc3, err |-> "ok", pins |-> r.pins + 1, log |-> log]

\* the scan is found complete and the page is left pinned
scanCompletedCallsNoUnpin(cur) == <<readPage(cur)>>

\* lines 684-690: the current page is read, and unpinned before the throw
scanCompletedCalls(cur) == <<readPage(cur), unPinPage(cur, FALSE)>>

\* scanNext, lines 679-754.  currentPageNum is read at line 684 before it was
\* ever assigned when the only startScan so far failed its argument checks.
scanNext(f, sc) ==
    LET currentNode == f.pages[sc.currentPageNum]
        sibling == f.pages[currentNode.rightSibPageNo]
        out == <<currentNode.ridArray[sc.nextEntry]>>
        cur == sc.currentPageNum
        sib == currentNode.rightSibPageNo
    IN  IF ~sc.scanExecuting
        THEN [sc |-> sc, err |-> "ScanNotInitialized", pins |-> 0, out |-> <<>>,
              ub |-> f.ub, log |-> <<>>]
        ELSE IF sc.currentPageNum = INVALID_NUMBER
        THEN [sc |-> sc, err |-> "undefined", pins |-> 1, out |-> <<>>,
              ub |-> "indeterminate", log |-> <<readPage(cur)>>]
        ELSE IF sc.nextEntry = 0 - 1
        THEN [sc |-> sc, err |-> "IndexScanCompleted", pins |-> 1, out |-> <<>>,
              ub |-> f.ub, log |-> scanCompletedCalls(cur)]
        ELSE IF sc.nextEntry + 1 < currentNode.numOccupied
        THEN [sc |-> [sc EXCEPT !.nextEntry =
                         nextInLeaf(currentNode.keyArray[sc.nextEntry + 1],
                                    sc.highValInt, sc.highOp, sc.nextEntry)],
              err |-> "ok", pins |-> 1, out |-> out, ub |-> f.ub,
              log |-> <<readPage(cur), load(cur), unPinPage(cur, FALSE)>>]
        ELSE IF currentNode.rightSibPageNo = INVALID_NUMBER
        THEN [sc |-> [sc EXCEPT !.nextEntry = 0 - 1],
              err |-> "ok", pins |-> 1, out |-> out, ub |-> f.ub,
              log |-> <<readPage(cur), load(cur), unPinPage(cur, FALSE)>>]
        \* lines 722-726: rightSibPageNo is read again after the unPinPage
        ELSE [sc |-> [sc EXCEPT !.currentPageNum = currentNode.rightSibPageNo,
                                !.nextEntry = firstOfSibling(sibling, sc.highValInt,
                                                             sc.highOp)],
              err |-> "ok", pins |-> 2, out |-> out, ub |-> f.ub,
              log |-> <<readPage(cur), load(cur), unPinPage(cur, FALSE), load(cur),
                        readPage(sib), load(sib), unPinPage(sib, FALSE)>>]

\* ------------------------------------------------------------------ actions
\* ------------------------------------------------------------ header page
\* IndexMetaInfo::relationName is a character array of NameFieldSize bytes;
\* a name is a sequence of non-zero characters that fits with its terminator
NameFieldSize == 3
Chars == {1, 2}
Names == UNION {[1..n -> Chars] : n \in 1..(NameFieldSize - 1)}
Offsets == {0, 4}
Datatype == {"INTEGER", "DOUBLE", "STRING"}
relA == <<1>>

\* line 74: strcpy copies the characters and the terminating 0 into the field
strcpy(relationName) ==
    [i \in 1..NameFieldSize |-> IF i <= Len(relationName) THEN relationName[i] ELSE 0]

\* the characters of a field up to the first 0, as the comparison of a
\* character array with a std::string reads them
RECURSIVE cString(_, _)
cString(field, i) ==
    IF i > Len(field) \/ field[i] = 0 THEN <<>>
    ELSE <<field[i]>> \o cString(field, i + 1)

\* lines 73-77
IndexMetaInfo(relationName, attrByteOffset, attrType) ==
    [relationName |-> strcpy(relationName),
     attrByteOffset |-> attrByteOffset,
     attrType |-> attrType]

\* a comparison that leaves the attribute type out
metaMismatchNoType(metadata, relationName, attrByteOffset, attrType) ==
    \/ cString(metadata.relationName, 1) # relationName
    \/ metadata.attrByteOffset # attrByteOffset

\* lines 52-54
metaMismatch(metadata, relationName, attrByteOffset, attrType) ==
    \/ cString(metadata.relationName, 1) # relationName
    \/ metadata.attrByteOffset # attrByteOffset
    \/ metadata.attrType # attrType

\* BTreeIndex::BTreeIndex, lines 42-63: the index file exists
openIndex(f, metadata, relationName, attrByteOffset, attrType) ==
    LET calls == <<readPage(headerPageNum), load(headerPageNum),
                   unPinPage(headerPageNum, FALSE)>>
    IN  IF metaMismatch(metadata, relationName, attrByteOffset, attrType)
        THEN [f EXCEPT !.pins = 1, !.log = calls] @@ [err |-> "BadIndexInfo"]
        ELSE [f EXCEPT !.rootPageNum = f.rootPageNo, !.pins = 1, !.log = calls]
                 @@ [err |-> "ok"]

NoArgs == <<>>

\* pins of page p held after the first n calls of log
pinCount(log, p, n) ==
    Cardinality({i \in 1..n : log[i].p = p /\ log[i].e \in {"readPage", "allocPage"}})
        - Cardinality({i \in 1..n : log[i].p = p /\ log[i].e = "unPinPage"})

\* what the calls of one operation amount to: pins still held when it ends,
\* an unPinPage of a page not pinned, an access to a page not pinned, no
\* unPinPage dirty, and
\* every unPinPage dirty exactly when the page was stored to under that pin
Audit(log) ==
    [held |-> Cardinality({i \in 1..Len(log) : log[i].e \in {"readPage", "allocPage"}})
                 - Cardinality({i \in 1..Len(log) : log[i].e = "unPinPage"}),
     unpinned |-> \E j \in 1..Len(log) :
                     log[j].e = "unPinPage" /\ pinCount(log, log[j].p, j - 1) <= 0,
     stale |-> \E j \in 1..Len(log) :
                  log[j].e \in {"load", "store"} /\ pinCount(log, log[j].p, j - 1) <= 0,
     clean |-> \A j \in 1..Len(log) : log[j].e = "unPinPage" => ~log[j].dirty,
     dirtyExact |-> \A j \in 1..Len(log) :
                       log[j].e = "unPinPage" =>
                           (log[j].dirty <=>
                               \E k \in 1..(j - 1) :
                                   /\ log[k] = store(log[j].p)
                                   /\ \A m \in (k + 1)..(j - 1) :
                                          ~(log[m].e = "unPinPage" /\ log[m].p = log[j].p))]

Outcome(op, err, pins, args, log) ==
    [op |-> op, err |-> err, pins |-> pins, args |-> args, audit |-> Audit(log)]
Brief(o) == [op |-> o.op, err |-> o.err]

\* BTreeIndex::BTreeIndex, lines 66-93, on an empty relation: header page 1,
\* empty root leaf page 2.  The scan members other than scanExecuting are not
\* assigned by the constructor; currentPageNum = INVALID_NUMBER marks that.
Created(relationName, attrByteOffset, attrType) ==
    /\ metaInfo = IndexMetaInfo(relationName, attrByteOffset, attrType)
    /\ pages = [p \in PageIds |->
                   IF p = headerPageNum THEN [NoPage EXCEPT !.kind = "header"]
                   ELSE IF p = 2 THEN LeafNodeInt(0)
                   ELSE NoPage]
    /\ nextPage = 3
    /\ rootPageNo = 2
    /\ rootPageNum = 2
    /\ onlyOneRoot = TRUE
    /\ scanExecuting = FALSE
    /\ lowValInt = 0
    /\ highValInt = 0
    /\ lowOp = "GTE"
    /\ highOp = "LTE"
    /\ currentPageNum = INVALID_NUMBER
    /\ nextEntry = 0 - 1
    /\ ub = "no"
    /\ inserted = {}
    /\ emitted = <<>>
    /\ last = Outcome("init", "ok", 2, NoArgs,
                       <<allocPage(headerPageNum), allocPage(2),
                         store(headerPageNum), store(2),
                         unPinPage(headerPageNum, TRUE), unPinPage(2, TRUE)>>)
    /\ before = [op |-> "none", err |-> "ok"]

\* main.cpp builds the index over relation relA, attribute offset 0, INTEGER
Init == Created(relA, 0, "INTEGER")

SetScan(sc) ==
    /\ scanExecuting' = sc.scanExecuting
    /\ lowValInt' = sc.lowValInt
    /\ highValInt' = sc.highValInt
    /\ lowOp' = sc.lowOp
    /\ highOp' = sc.highOp
    /\ currentPageNum' = sc.currentPageNum
    /\ nextEntry' = sc.nextEntry

\* The index is built first and queried afterwards, one scan per run (the
\* order of intTests in main.cpp); nothing is explored after undefined
\* behaviour.
Building == ub = "no" /\ last.op \in {"init", "insertEntry"}

\* insertEntry(key, rid)
Insert(key, fresh) ==
    /\ key \notin inserted
    /\ LET f == insertEntry(File, key, RidOf(key), fresh)
       IN  /\ pages' = f.pages
           /\ nextPage' = f.nextPage
           /\ rootPageNo' = f.rootPageNo
           /\ rootPageNum' = f.rootPageNum
           /\ onlyOneRoot' = f.onlyOneRoot
           /\ ub' = f.ub
           /\ last' = Outcome("insertEntry", "ok", f.pins, NoArgs, f.log)
    /\ before' = Brief(last)
    /\ inserted' = inserted \cup {key}
    /\ UNCHANGED <<scan, emitted, metaInfo>>

\* startScan(lowValParm, lowOpParm, highValParm, highOpParm)
StartScan(lowValParm, lowOpParm, highValParm, highOpParm, garbage) ==
    LET r == startScan(File, Scan, lowValParm, lowOpParm, highValParm, highOpParm,
                       garbage)
    IN  /\ SetScan(r.sc)
        /\ emitted' = <<>>
        /\ last' = Outcome("startScan", r.err, r.pins,
                           <<lowValParm, lowOpParm, highValParm, highOpParm>>, r.log)
        /\ before' = Brief(last)
        /\ UNCHANGED tree

\* scanNext(outRid)
ScanNext ==
    /\ ub = "no"
    /\ LET r == scanNext(File, Scan)
       IN  /\ SetScan(r.sc)
           /\ emitted' = emitted \o r.out
           /\ ub' = r.ub
           /\ last' = Outcome("scanNext", r.err, r.pins, NoArgs, r.log)
    /\ before' = Brief(last)
    /\ UNCHANGED <<pages, nextPage, rootPageNo, metaInfo, rootPageNum, onlyOneRoot, inserted>>

\* endScan()
EndScan ==
    /\ ub = "no"
    /\ LET r == endScan(Scan)
       IN  /\ SetScan(r.sc)
           /\ last' = Outcome("endScan", r.err, 0, NoArgs, <<>>)
    /\ before' = Brief(last)
    /\ UNCHANGED <<tree, emitted>>

Next ==
    \/ Building /\ \E key \in Keys, fresh \in FreshNumOccupied : Insert(key, fresh)
    \/ Building /\ \E lo \in ScanVals, hi \in ScanVals, lop \in Operator,
                      hop \in Operator, garbage \in GarbageKeys :
                        StartScan(lo, lop, hi, hop, garbage)
    \/ ScanNext
    \/ EndScan

Spec == Init /\ [][Next]_vars

\* Inserts that go on after a store beyond keyArray / pageNoArray, for the
\* outcome in which that store landed in memory of the page nothing else
\* uses (the slack slots) and a page from allocPage holds zeros: the next
\* leaf split below the overfull node reaches splitInternal.
OverflowKeys == 1..(MaxKey + 2)

InsertOverflowed(key) ==
    /\ ub \in {"no", "oob"}
    /\ key \notin inserted
    /\ LET f == insertEntry(File, key, RidOf(key), 0)
       IN  /\ pages' = f.pages
           /\ nextPage' = f.nextPage
           /\ rootPageNo' = f.rootPageNo
           /\ rootPageNum' = f.rootPageNum
           /\ onlyOneRoot' = f.onlyOneRoot
           /\ ub' = f.ub
           /\ last' = Outcome("insertEntry", "ok", f.pins, NoArgs, f.log)
    /\ before' = Brief(last)
    /\ inserted' = inserted \cup {key}
    /\ UNCHANGED <<scan, emitted, metaInfo>>

NextOverflow == \E key \in OverflowKeys : InsertOverflowed(key)

SpecOverflow == Init /\ [][NextOverflow]_vars

\* ------------------------------------------------- opening an existing index
\* the file after the constructor created it and insertEntry was called
\* with the keys 1..n in ascending order
RECURSIVE Built(_)
Built(n) ==
    IF n = 0
    THEN [pages |-> [p \in PageIds |->
                        IF p = headerPageNum THEN [NoPage EXCEPT !.kind = "header"]
                        ELSE IF p = 2 THEN LeafNodeInt(0)
                        ELSE NoPage],
          nextPage |-> 3, rootPageNo |-> 2, rootPageNum |-> 2, onlyOneRoot |-> TRUE,
          ub |-> "no", pins |-> 0, log |-> <<>>]
    ELSE insertEntry(Built(n - 1), n, RidOf(n), 0)

\* The index file found under the name derived from the constructor's
\* arguments was created with any name, offset and type, and holds no key
\* or the keys of one leaf split.  The object that wrote it is gone.
InitOpen ==
    \E relationName \in Names, attrByteOffset \in Offsets, attrType \in Datatype,
       n \in {0, leafOccupancy + 1} :
        /\ metaInfo = IndexMetaInfo(relationName, attrByteOffset, attrType)
        /\ pages = Built(n).pages
        /\ nextPage = Built(n).nextPage
        /\ rootPageNo = Built(n).rootPageNo
        /\ rootPageNum = Built(n).rootPageNum
        /\ onlyOneRoot = Built(n).onlyOneRoot
        /\ scanExecuting = FALSE
        /\ lowValInt = 0
        /\ highValInt = 0
        /\ lowOp = "GTE"
        /\ highOp = "LTE"
        /\ currentPageNum = INVALID_NUMBER
        /\ nextEntry = 0 - 1
        /\ ub = "no"
        /\ inserted = 1..n
        /\ emitted = <<>>
        /\ last = Outcome("init", "ok", 0, NoArgs, <<>>)
        /\ before = [op |-> "none", err |-> "ok"]

\* Constructing a BTreeIndex on the existing file takes the path of lines
\* 42-63.  It assigns headerPageNum, rootPageNum and file; onlyOneRoot and
\* scanExecuting of the new object are never assigned on this path (nor are
\* leafOccupancy and nodeOccupancy), so they hold whatever the object's
\* memory held: members.  When the constructor throws there is no object.
\* One construction per run.
Open(relationName, attrByteOffset, attrType, members) ==
    /\ last.op = "init"
    /\ LET f == openIndex(File, metaInfo, relationName, attrByteOffset, attrType)
       IN  /\ pages' = f.pages
           /\ nextPage' = f.nextPage
           /\ rootPageNo' = f.rootPageNo
           /\ rootPageNum' = f.rootPageNum
           /\ ub' = f.ub
           /\ last' = Outcome("open", f.err, f.pins,
                              <<relationName, attrByteOffset, attrType>>, f.log)
           /\ IF f.err = "ok"
              THEN /\ onlyOneRoot' = members.onlyOneRoot
                   /\ scanExecuting' = members.scanExecuting
              ELSE UNCHANGED <<onlyOneRoot, scanExecuting>>
    /\ before' = Brief(last)
    /\ UNCHANGED <<lowValInt, highValInt, lowOp, highOp, currentPageNum, nextEntry,
                   emitted, inserted, metaInfo>>

NextOpen ==
    \E relationName \in Names, attrByteOffset \in Offsets, attrType \in Datatype,
       members \in [onlyOneRoot : BOOLEAN, scanExecuting : BOOLEAN] :
        Open(relationName, attrByteOffset, attrType, members)

SpecOpen == InitOpen /\ [][NextOpen]_vars

\* ---------------------------------------- inserts into a roomy internal node
\* nodeOccupancy of an index whose internal nodes have room for more than
\* one key: the path of insertEntryInternal that stores without overflow
wideOccupancy == 3
InternalKeys == 1..(wideOccupancy + 2)

\* struct NonLeafNodeInt with keyArray[wideOccupancy] and
\* pageNoArray[wideOccupancy + 1]
WideNode(level) ==
    [NoPage EXCEPT !.kind = "nonleaf", !.level = level,
                   !.keyArray = [i \in 0..(wideOccupancy - 1) |-> 0],
                   !.pageNoArray = [i \in 0..wideOccupancy |-> 0]]

\* The root as the first root split leaves it (lines 332-351 with level 1,
\* lines 575-593 with level 0): page 2, one key, children 3 and 4.
InitInternal ==
    \E key \in InternalKeys, level \in {0, 1} :
        /\ pages = [p \in PageIds |->
                       IF p = 2 THEN [WideNode(level) EXCEPT !.numOccupied = 1,
                                                             !.keyArray[0] = key,
                                                             !.pageNoArray[0] = 3,
                                                             !.pageNoArray[1] = 4]
                       ELSE NoPage]
        /\ nextPage = 5
        /\ rootPageNo = 2
        /\ rootPageNum = 2
        /\ metaInfo = IndexMetaInfo(relA, 0, "INTEGER")
        /\ onlyOneRoot = FALSE
        /\ scanExecuting = FALSE
        /\ lowValInt = 0
        /\ highValInt = 0
        /\ lowOp = "GTE"
        /\ highOp = "LTE"
        /\ currentPageNum = INVALID_NUMBER
        /\ nextEntry = 0 - 1
        /\ ub = "no"
        /\ inserted = {key}
        /\ emitted = <<>>
        /\ last = Outcome("init", "ok", 0, NoArgs, <<>>)
        /\ before = [op |-> "none", err |-> "ok"]

\* insertEntryInternal(key, 2, newPageNo, ..., splitFromLeaf) as the split
\* of a child calls it: newPageNo is the page that split allocated, and
\* splitFromLeaf tells whether the children are leaves (line 328: true from
\* splitLeaf, line 571: false from splitInternal).  Taken while the node
\* holds fewer than wideOccupancy keys (lines 378-418).
InsertInternal(key) ==
    /\ pages[2].numOccupied < wideOccupancy
    /\ key \notin inserted
    /\ LET newPageNo == nextPage
           splitFromLeaf == pages[2].level = 1
       IN  /\ pages' = [pages EXCEPT
                           ![2] = internalPlace(pages[2], key, newPageNo, splitFromLeaf)]
           /\ nextPage' = newPageNo + 1
           /\ last' = Outcome("insertEntryInternal", "ok", 1,
                              <<key, newPageNo, splitFromLeaf>>,
                              <<readPage(2), load(2), store(2), unPinPage(2, TRUE)>>)
    /\ before' = Brief(last)
    /\ inserted' = inserted \cup {key}
    /\ UNCHANGED <<rootPageNo, metaInfo, rootPageNum, onlyOneRoot, ub, scan, emitted>>

NextInternal == \E key \in InternalKeys : InsertInternal(key)

SpecInternal == InitInternal /\ [][NextInternal]_vars

\* ------------------------------------------------------------- properties
Min(S) == CHOOSE x \in S : \A y \in S : x <= y
Max(S) == CHOOSE x \in S : \A y \in S : x >= y

RECURSIVE Ascending(_)
Ascending(S) == IF S = {} THEN <<>> ELSE <<Min(S)>> \o Ascending(S \ {Min(S)})

\* the rids of the keys of S in ascending key order
RidsOf(S) == [i \in 1..Cardinality(S) |-> RidOf(Ascending(S)[i])]

InRange(k, lo, lop, hi, hop) ==
    /\ IF lop = "GTE" THEN k >= lo ELSE k > lo
    /\ IF hop = "LTE" THEN k <= hi ELSE k < hi

\* the indexed keys inside the range of the scan members
InRangeKeys == {k \in inserted : InRange(k, lowValInt, lowOp, highValInt, highOp)}

\* the last call was a startScan that passed its argument checks
SearchedStart == last.op = "startScan" /\ last.err \in {"ok", "NoSuchKeyFound"}

\* the last call was the scanNext that ended a scan
Drained == last.op = "scanNext" /\ last.err = "IndexScanCompleted"

\* the scan members describe the scan [min, max] of all indexed keys
FullRange ==
    /\ inserted # {}
    /\ lowValInt = Min(inserted) /\ lowOp = "GTE"
    /\ highValInt = Max(inserted) /\ highOp = "LTE"

\* keys of the leaves on the right-sibling chain from page p
RECURSIVE ChainKeys(_, _)
ChainKeys(p, fuel) ==
    IF p = INVALID_NUMBER \/ fuel = 0 THEN <<>>
    ELSE [i \in 1..pages[p].numOccupied |-> pages[p].keyArray[i - 1]]
             \o ChainKeys(pages[p].rightSibPageNo, fuel - 1)

\* C1: for any sequence of insertEntry calls with distinct keys, every call
\* stays inside the node arrays, and the scan [min, GTE, max, LTE] drained to
\* IndexScanCompleted has emitted exactly the rids of the inserted keys, in
\* ascending key order.
C1_RoundTrip ==
    /\ ub # "oob"
    /\ (Drained /\ FullRange) => emitted = RidsOf(inserted)

\* C2: the number of rids a scan with valid arguments yields (0 when
\* startScan raises NoSuchKeyFound) is the number of indexed keys in range.
C2_ScanCount ==
    /\ Drained => Len(emitted) = Cardinality(InRangeKeys)
    /\ (last.op = "startScan" /\ last.err = "NoSuchKeyFound")
           => Cardinality(InRangeKeys) = 0

\* C3: when an indexed key lies in range startScan succeeds, the first rid
\* emitted is that of the smallest key in range, and the emitted rids belong
\* to strictly increasing keys.
C3_FirstAndOrder ==
    /\ (SearchedStart /\ InRangeKeys # {}) => last.err = "ok"
    /\ (last.op = "scanNext" /\ last.err \in {"ok", "IndexScanCompleted"}
            /\ InRangeKeys # {}) =>
           /\ Len(emitted) >= 1
           /\ emitted[1] = RidOf(Min(InRangeKeys))
           /\ \A i \in 1..(Len(emitted) - 1) : emitted[i] < emitted[i + 1]

\* C4: startScan with valid arguments raises NoSuchKeyFound if and only if
\* no indexed key lies in range.
C4_NoSuchKeyIff ==
    SearchedStart => (last.err = "NoSuchKeyFound" <=> InRangeKeys = {})

\* C5: on the empty tree every startScan with valid arguments raises
\* NoSuchKeyFound.
C5_EmptyTree ==
    (SearchedStart /\ inserted = {}) => last.err = "NoSuchKeyFound"

\* C6: after startScan raised NoSuchKeyFound no scan is active, and the next
\* scanNext or endScan raises ScanNotInitialized.
C6_NoSuchKeyInactive ==
    [][(last.op = "startScan" /\ last.err = "NoSuchKeyFound") =>
           /\ ~scanExecuting
           /\ last'.op \in {"scanNext", "endScan"} => last'.err = "ScanNotInitialized"
      ]_vars

C6_Witness ==
    /\ before = [op |-> "startScan", err |-> "NoSuchKeyFound"]
    /\ last.op = "scanNext" /\ last.err = "ScanNotInitialized"
    /\ inserted # {}

\* C7: startScan with low > high raises BadScanrange whatever the operators
\* are, and pins no page.
C7_BadScanrange ==
    (last.op = "startScan" /\ last.args[1] > last.args[3])
        => (last.err = "BadScanrange" /\ last.pins = 0)

C7_Witness ==
    /\ last.op = "startScan" /\ last.err = "BadScanrange"
    /\ last.args[2] = "LTE" /\ last.args[4] = "GTE"
    /\ ~onlyOneRoot

\* C8: startScan with low <= high raises BadOpcodes exactly when lowOp is
\* not GT or GTE, or highOp is not LT or LTE.
C8_BadOpcodes ==
    (last.op = "startScan" /\ last.args[1] <= last.args[3])
        => (last.err = "BadOpcodes"
                <=> (last.args[2] \notin {"GT", "GTE"} \/ last.args[4] \notin {"LT", "LTE"}))

C8_Witness ==
    /\ last.op = "startScan" /\ last.err = "BadOpcodes"
    /\ last.args[2] = "GTE" /\ last.args[4] = "GTE"

\* C9: after startScan raised BadScanrange or BadOpcodes no scan is active.
C9_FailedStartInactive ==
    (last.op = "startScan" /\ last.err \in {"BadScanrange", "BadOpcodes"})
        => ~scanExecuting

\* C10: while no scan is active scanNext and endScan raise
\* ScanNotInitialized, pin no page and change neither the scan members nor
\* any page.
C10_InactiveRaises ==
    [][(~scanExecuting /\ last'.op \in {"scanNext", "endScan"}) =>
           /\ last'.err = "ScanNotInitialized"
           /\ last'.pins = 0
           /\ UNCHANGED <<tree, scan>>
      ]_vars

C10_Witness ==
    /\ before = [op |-> "endScan", err |-> "ok"]
    /\ last.op = "scanNext" /\ last.err = "ScanNotInitialized"
    /\ Len(emitted) >= 1

\* C11: once a scan has emitted the rids of all keys in range, every further
\* scanNext raises IndexScanCompleted and emits nothing, the scan stays
\* active, and endScan then succeeds.
C11_CompletedStaysActive ==
    [][(/\ scanExecuting
        /\ last.op = "scanNext" /\ last.err \in {"ok", "IndexScanCompleted"}
        /\ Len(emitted) >= 1 /\ emitted = RidsOf(InRangeKeys)) =>
           /\ last'.op = "scanNext" =>
                  (last'.err = "IndexScanCompleted" /\ emitted' = emitted /\ scanExecuting')
           /\ last'.op = "endScan" => (last'.err = "ok" /\ ~scanExecuting')
      ]_vars

C11_Witness ==
    /\ before = [op |-> "scanNext", err |-> "IndexScanCompleted"]
    /\ last.op = "scanNext" /\ last.err = "IndexScanCompleted"
    /\ scanExecuting
    /\ Len(emitted) >= 2 /\ emitted = RidsOf(InRangeKeys)

\* C12: when an operation returns or raises, every readPage and allocPage it
\* made has been matched by one unPinPage, and it made no unPinPage of a page
\* that was not pinned.  (A scanNext that reads a currentPageNum never
\* assigned has no defined calls.)
C12_NoPinsHeld ==
    last.err # "undefined" => (last.audit.held = 0 /\ ~last.audit.unpinned)

C12_Witness ==
    /\ last.op = "scanNext" /\ last.err = "IndexScanCompleted"
    /\ last.pins = 1 /\ last.audit.held = 0
    /\ ~onlyOneRoot

\* C13: no operation loads from or stores to a page after its unPinPage of
\* that page.
C13_AccessWhilePinned ==
    ~last.audit.stale

\* C14: every unPinPage is dirty exactly when the page was stored to under
\* that pin, and startScan and scanNext change no page.
C14_DirtyExact ==
    /\ [](last.err # "undefined" => last.audit.dirtyExact)
    /\ [][last'.op \in {"startScan", "scanNext"} =>
              (pages' = pages /\ rootPageNo' = rootPageNo)]_vars

C14_Witness ==
    /\ last.op = "insertEntry" /\ last.pins >= 5
    /\ ~onlyOneRoot /\ ub = "no"

\* ------------------------------------------------------ tree structure
\* the page a page id names; an id outside the file names no node
PageAt(p) == IF p \in PageIds THEN pages[p] ELSE NoPage

\* the keys K[0..N) of a node, and its children C[0..N]
KeysOf(node) ==
    {node.keyArray[i] : i \in (0..(node.numOccupied - 1)) \cap DOMAIN node.keyArray}
ChildrenOf(node) ==
    {node.pageNoArray[i] : i \in (0..node.numOccupied) \cap DOMAIN node.pageNoArray}

\* internal nodes, leaves and keys of the subtree at page p; leaf tells
\* whether p is a leaf (onlyOneRoot for the root, level = 1 of the parent
\* below it), depth bounds the descent
RECURSIVE InternalNodes(_, _, _)
InternalNodes(p, leaf, depth) ==
    IF leaf \/ depth = 0 THEN {}
    ELSE {p} \cup UNION {InternalNodes(c, PageAt(p).level = 1, depth - 1) :
                            c \in ChildrenOf(PageAt(p))}

RECURSIVE LeafNodes(_, _, _)
LeafNodes(p, leaf, depth) ==
    IF leaf THEN {p}
    ELSE IF depth = 0 THEN {}
    ELSE UNION {LeafNodes(c, PageAt(p).level = 1, depth - 1) :
                   c \in ChildrenOf(PageAt(p))}

RECURSIVE SubtreeKeys(_, _, _)
SubtreeKeys(p, leaf, depth) ==
    IF leaf \/ depth = 0 THEN KeysOf(PageAt(p))
    ELSE UNION {SubtreeKeys(c, PageAt(p).level = 1, depth - 1) :
                   c \in ChildrenOf(PageAt(p))}

RECURSIVE LeftmostLeaf(_, _, _)
LeftmostLeaf(p, leaf, depth) ==
    IF leaf \/ depth = 0 THEN p
    ELSE LeftmostLeaf(PageAt(p).pageNoArray[0], PageAt(p).level = 1, depth - 1)

TreeInternalNodes == InternalNodes(rootPageNum, onlyOneRoot, MaxKey)
TreeLeafNodes == LeafNodes(rootPageNum, onlyOneRoot, MaxKey)

\* page ids met following rightSibPageNo from leaf p
RECURSIVE ChainPages(_, _)
ChainPages(p, fuel) ==
    IF p = INVALID_NUMBER \/ fuel = 0 THEN <<>>
    ELSE <<p>> \o ChainPages(PageAt(p).rightSibPageNo, fuel - 1)

TreeChain == ChainPages(LeftmostLeaf(rootPageNum, onlyOneRoot, MaxKey), Cardinality(PageIds))

\* C15: after every insertEntry the keys K[0..N) of every leaf and every
\* internal node reachable from the root are strictly ascending.
C15_KeysAscending ==
    \A p \in TreeLeafNodes \cup TreeInternalNodes :
        \A i \in 0..(PageAt(p).numOccupied - 2) :
            /\ i + 1 \in DOMAIN PageAt(p).keyArray
            /\ PageAt(p).keyArray[i] < PageAt(p).keyArray[i + 1]

\* C16: after every insertEntry, for every internal node and every i < N,
\* K[i] is the smallest key of the subtree at C[i+1] and every key of the
\* subtree at C[i] is less than K[i].
C16_Separators ==
    \A p \in TreeInternalNodes :
        LET node == PageAt(p)
        IN  \A i \in 0..(node.numOccupied - 1) :
                /\ i \in DOMAIN node.keyArray
                /\ i + 1 \in DOMAIN node.pageNoArray
                /\ LET right == SubtreeKeys(node.pageNoArray[i + 1], node.level = 1, MaxKey)
                       left == SubtreeKeys(node.pageNoArray[i], node.level = 1, MaxKey)
                   IN  /\ right # {}
                       /\ node.keyArray[i] = Min(right)
                       /\ \A k \in left : k < node.keyArray[i]

\* C17: after every insertEntry the right-sibling chain from the leftmost
\* leaf visits every leaf reachable from the root once, in ascending key
\* order, and ends at a leaf whose rightSibPageNo is INVALID.
C17_LeafChain ==
    /\ \A i, j \in 1..Len(TreeChain) : i # j => TreeChain[i] # TreeChain[j]
    /\ Len(TreeChain) >= 1
    /\ PageAt(TreeChain[Len(TreeChain)]).rightSibPageNo = INVALID_NUMBER
    /\ {TreeChain[i] : i \in 1..Len(TreeChain)} = TreeLeafNodes
    /\ \A i \in 1..(Len(TreeChain) - 1) :
           \A a \in KeysOf(PageAt(TreeChain[i])), b \in KeysOf(PageAt(TreeChain[i + 1])) :
               a < b

\* C18: after every insertEntry every leaf holds at most leafOccupancy keys
\* and every internal node at most nodeOccupancy keys: no key is stored at
\* index nodeOccupancy and no child pointer beyond index nodeOccupancy.
C18_Occupancy ==
    /\ ub # "oob"
    /\ \A p \in TreeLeafNodes : PageAt(p).numOccupied \in 0..leafOccupancy
    /\ \A p \in TreeInternalNodes : PageAt(p).numOccupied \in 0..nodeOccupancy

\* pages the file has allocated for nodes
NodePages == {p \in PageIds : headerPageNum < p /\ p < nextPage}

\* C19: the root page id in the header equals the root page id in memory
\* and names an allocated node that is the child of no node; the header
\* field changes only in an insertEntry that installs a newly allocated root
\* above the old one, never during a scan.
C19_HeaderRoot ==
    /\ [](/\ rootPageNo = rootPageNum
          /\ rootPageNum \in NodePages
          /\ pages[rootPageNum].kind = (IF onlyOneRoot THEN "leaf" ELSE "nonleaf")
          /\ \A p \in NodePages :
                 pages[p].kind = "nonleaf" => rootPageNum \notin ChildrenOf(pages[p]))
    /\ [][rootPageNo' # rootPageNo =>
              /\ last'.op = "insertEntry"
              /\ rootPageNo' = nextPage' - 1 /\ rootPageNo' >= nextPage
              /\ rootPageNo \in ChildrenOf(pages'[rootPageNo'])]_vars

C19_Witness ==
    /\ ~onlyOneRoot /\ rootPageNo = 4 /\ pages[4].pageNoArray[0] = 2
    /\ last.op = "scanNext" /\ last.err = "ok"

\* C20: constructing a BTreeIndex on an existing index file raises
\* BadIndexInfo exactly when the header's relation name, attribute offset or
\* attribute type differs from the constructor's arguments; when it raises,
\* every pin has been released, no page was unpinned dirty, and the pages
\* and the header are as they were.
C20_OpenChecksHeader ==
    /\ [](last.op = "open" =>
            /\ last.err \in {"ok", "BadIndexInfo"}
            /\ (last.err = "BadIndexInfo") <=>
                   (metaInfo # IndexMetaInfo(last.args[1], last.args[2], last.args[3]))
            /\ last.err = "BadIndexInfo" =>
                   /\ last.audit.held = 0
                   /\ ~last.audit.unpinned
                   /\ last.audit.clean)
    /\ [][last'.op = "open" /\ last'.err = "BadIndexInfo" =>
              /\ pages' = pages
              /\ nextPage' = nextPage
              /\ rootPageNo' = rootPageNo
              /\ metaInfo' = metaInfo]_vars

\* the header agrees in name and offset and differs in the type alone
C20_Witness ==
    /\ last.op = "open" /\ last.err = "BadIndexInfo"
    /\ metaInfo.relationName = strcpy(last.args[1])
    /\ metaInfo.attrByteOffset = last.args[2]
    /\ metaInfo.attrType # last.args[3]

\* ------------------------------------------------------ scans by example
\* the only indexed key of a tree holding one key
TheKey == CHOOSE k \in inserted : TRUE

\* C21: in a tree holding exactly one key k, a startScan with valid
\* arguments whose low or high bound equals k succeeds iff the range admits
\* k (low bound equal: lowOp is GTE; high bound equal: highOp is LTE) and
\* raises NoSuchKeyFound otherwise; the scan it starts emits the rid of k and
\* nothing else.
C21_SingleKeyBounds ==
    /\ (/\ SearchedStart /\ Cardinality(inserted) = 1
        /\ (last.args[1] = TheKey \/ last.args[3] = TheKey)) =>
           LET admitted == InRange(TheKey, last.args[1], last.args[2],
                                   last.args[3], last.args[4])
           IN  /\ last.err = "ok" <=> admitted
               /\ ~admitted => last.err = "NoSuchKeyFound"
    /\ (/\ Drained /\ Cardinality(inserted) = 1
        /\ (lowValInt = TheKey \/ highValInt = TheKey)
        /\ InRangeKeys = {TheKey}) => emitted = <<RidOf(TheKey)>>

\* C22: for every indexed key k, startScan(k, GTE, k, LTE) succeeds and the
\* scan drained to IndexScanCompleted has emitted the rid of k and no other.
C22_PointScan ==
    /\ (/\ last.op = "startScan"
        /\ last.args[1] \in inserted
        /\ last.args = <<last.args[1], "GTE", last.args[1], "LTE">>) =>
           last.err = "ok"
    /\ (/\ Drained
        /\ lowValInt \in inserted /\ highValInt = lowValInt
        /\ lowOp = "GTE" /\ highOp = "LTE") => emitted = <<RidOf(lowValInt)>>

\* the key scanNext looks at to decide whether the scan goes on: the next
\* entry of the current leaf, else the first entry of the right sibling;
\* 0 when there is none
Candidate ==
    LET currentNode == PageAt(currentPageNum)
        sibling == PageAt(currentNode.rightSibPageNo)
    IN  IF nextEntry + 1 < currentNode.numOccupied
        THEN currentNode.keyArray[nextEntry + 1]
        ELSE IF currentNode.rightSibPageNo # INVALID_NUMBER /\ sibling.numOccupied > 0
        THEN sibling.keyArray[0]
        ELSE 0

\* C23: a scanNext that emits a rid leaves nextEntry at the next candidate
\* key iff that key is below the high bound, or equals it with highOp LTE,
\* whether the candidate is in the same leaf or the first of the right
\* sibling; otherwise nextEntry becomes -1.
C23_UpperBoundTest ==
    [][(last'.op = "scanNext" /\ last'.err = "ok" /\ Candidate # 0) =>
           LET accepted == \/ Candidate < highValInt
                           \/ (Candidate = highValInt /\ highOp = "LTE")
           IN  /\ accepted =>
                      /\ nextEntry' # 0 - 1
                      /\ PageAt(currentPageNum').keyArray[nextEntry'] = Candidate
               /\ ~accepted => nextEntry' = 0 - 1
      ]_vars

\* the internal nodes from the root down to the parent of leaf p, root
\* first, found through the child pointers
RECURSIVE PathTo(_, _, _)
PathTo(p, from, depth) ==
    IF depth = 0 \/ p \notin LeafNodes(from, FALSE, depth) THEN <<>>
    ELSE IF PageAt(from).level = 1 THEN <<from>>
    ELSE LET c == CHOOSE c \in ChildrenOf(PageAt(from)) :
                      p \in LeafNodes(c, FALSE, depth - 1)
         IN  <<from>> \o PathTo(p, c, depth - 1)

\* C24: on a multi-level tree searchEntry(k), for every indexed key k,
\* returns the leaf that holds k, and the list of visited nodes is the path
\* from the root to the parent of that leaf, root first.
C24_SearchFindsLeaf ==
    (~onlyOneRoot /\ ub = "no") =>
        \A k \in inserted :
            LET r == searchEntry(File, k, rootPageNum, <<>>)
            IN  /\ k \in KeysOf(PageAt(r.pageNo))
                /\ r.visitedNodes = PathTo(r.pageNo, rootPageNum, MaxKey)

\* C25: onlyOneRoot holds iff the root page is a leaf; while it holds
\* searchEntry returns the root for every key, with no visited node and no
\* page pinned; it is cleared by the insertEntry that splits the root leaf,
\* which installs an internal root, by nothing else, and is never set again.
C25_OnlyOneRoot ==
    /\ [](/\ onlyOneRoot <=> pages[rootPageNum].kind = "leaf"
          /\ onlyOneRoot =>
                 \A k \in Keys :
                     searchEntry(File, k, rootPageNum, <<>>) =
                         [pageNo |-> rootPageNum, visitedNodes |-> <<>>,
                          pins |-> 0, log |-> <<>>])
    /\ [][/\ ~onlyOneRoot => ~onlyOneRoot'
          /\ (onlyOneRoot /\ ~onlyOneRoot') =>
                 /\ last'.op = "insertEntry"
                 /\ pages[rootPageNum].numOccupied = leafOccupancy
                 /\ rootPageNum' # rootPageNum
                 /\ pages'[rootPageNum'].kind = "nonleaf"
          /\ (/\ onlyOneRoot /\ last'.op = "insertEntry" /\ inserted' # inserted
              /\ pages[rootPageNum].numOccupied = leafOccupancy) => ~onlyOneRoot'
         ]_vars

C25_Witness ==
    /\ ~onlyOneRoot /\ last.op = "insertEntry" /\ before.op = "insertEntry"
    /\ Cardinality(inserted) = leafOccupancy + 1
    /\ pages[rootPageNum].kind = "nonleaf"

\* C26: after a BTreeIndex was constructed on an existing file whose header
\* matches the arguments, onlyOneRoot holds iff the root page is a leaf, no
\* scan is active and the root is the one the header names.
C26_ReopenState ==
    (last.op = "open" /\ last.err = "ok") =>
        /\ rootPageNum = rootPageNo
        /\ onlyOneRoot <=> pages[rootPageNum].kind = "leaf"
        /\ ~scanExecuting

\* ------------------------------------------------------ effect of an insert
\* the (key, rid) pairs of a leaf
Entries(node) ==
    {<<node.keyArray[i], node.ridArray[i]>> :
        i \in (0..(node.numOccupied - 1)) \cap DOMAIN node.keyArray}

\* the keys K[0..N) of a node are strictly ascending
NodeAscending(node) ==
    \A i \in 0..(node.numOccupied - 2) :
        /\ i + 1 \in DOMAIN node.keyArray
        /\ node.keyArray[i] < node.keyArray[i + 1]

\* the key of the insertEntry that is being taken, and the leaf it goes to
InsertedKey == CHOOSE k \in inserted' \ inserted : TRUE
TargetLeaf == searchEntry(File, InsertedKey, rootPageNum, <<>>).pageNo

\* C27: an insertEntry of (k, rid) whose leaf holds fewer than
\* leafOccupancy entries leaves that leaf with its previous entries plus
\* (k, rid), keys ascending, numOccupied one larger; no page is allocated and
\* no other page, nor the root id in the header or in memory, changes.
C27_NonFullLeafInsert ==
    [][(/\ last'.op = "insertEntry" /\ inserted' # inserted
        /\ pages[TargetLeaf].numOccupied < leafOccupancy) =>
           /\ pages'[TargetLeaf].numOccupied = pages[TargetLeaf].numOccupied + 1
           /\ Entries(pages'[TargetLeaf]) =
                  Entries(pages[TargetLeaf]) \cup {<<InsertedKey, RidOf(InsertedKey)>>}
           /\ NodeAscending(pages'[TargetLeaf])
           /\ pages'[TargetLeaf].rightSibPageNo = pages[TargetLeaf].rightSibPageNo
           /\ \A q \in PageIds \ {TargetLeaf} : pages'[q] = pages[q]
           /\ nextPage' = nextPage
           /\ rootPageNo' = rootPageNo /\ rootPageNum' = rootPageNum
           /\ onlyOneRoot' = onlyOneRoot /\ ub' = ub
      ]_vars

\* a fifth key went into one of the two leaves of a two-level tree
C27_Witness ==
    /\ last.op = "insertEntry" /\ ~onlyOneRoot /\ ub = "no"
    /\ Cardinality(inserted) = leafOccupancy + 2
    /\ nextPage = 5
    /\ \E p \in TreeLeafNodes : pages[p].numOccupied = leafOccupancy

\* ceil(n / 2)
CeilHalf(n) == (n + 1) \div 2

\* C28: an insertEntry of (k, rid) whose leaf L is full allocates the next
\* page as L'; afterwards the entries of L and L' together are the old
\* entries of L plus (k, rid), L' holds ceil((leafOccupancy + 1) / 2) of
\* them, both leaves are strictly ascending, every key of L is below every
\* key of L', and an internal node holds the key L'.K[0] with L' as the
\* child to its right.
C28_LeafSplit ==
    [][(/\ last'.op = "insertEntry" /\ inserted' # inserted
        /\ pages[TargetLeaf].numOccupied = leafOccupancy) =>
           LET old == pages[TargetLeaf]
               L1 == pages'[TargetLeaf]
               L2 == pages'[nextPage]
           IN  /\ L2.kind = "leaf"
               /\ L1.numOccupied + L2.numOccupied = leafOccupancy + 1
               /\ L2.numOccupied = CeilHalf(leafOccupancy + 1)
               /\ Entries(L1) \cup Entries(L2) =
                      Entries(old) \cup {<<InsertedKey, RidOf(InsertedKey)>>}
               /\ NodeAscending(L1) /\ NodeAscending(L2)
               /\ \A a \in KeysOf(L1), b \in KeysOf(L2) : a < b
               /\ \E q \in PageIds :
                      /\ pages'[q].kind = "nonleaf"
                      /\ \E i \in 0..(pages'[q].numOccupied - 1) :
                             /\ i \in DOMAIN pages'[q].keyArray
                             /\ pages'[q].keyArray[i] = L2.keyArray[0]
                             /\ pages'[q].pageNoArray[i + 1] = nextPage
      ]_vars

\* the root leaf was split: pages 2 and 3 are the two leaves
C28_Witness ==
    /\ last.op = "insertEntry" /\ ~onlyOneRoot
    /\ Cardinality(inserted) = leafOccupancy + 1
    /\ pages[2].kind = "leaf" /\ pages[3].kind = "leaf"
    /\ pages[2].rightSibPageNo = 3
    /\ pages[2].numOccupied + pages[3].numOccupied = leafOccupancy + 1

\* C29: the insertEntry that splits the root leaf leaves a newly allocated
\* root with level = 1, numOccupied = 1, K[0] = the first key of the new
\* leaf, C[0] = the old leaf and C[1] = the new leaf; the header's root
\* field and rootPageNum name it and onlyOneRoot is cleared.
C29_FirstRoot ==
    [][(onlyOneRoot /\ last'.op = "insertEntry" /\ inserted' # inserted
            /\ pages[rootPageNum].numOccupied = leafOccupancy) =>
           LET rootNode == pages'[rootPageNum']
           IN  /\ rootPageNum' = nextPage + 1 /\ rootPageNo' = nextPage + 1
               /\ ~onlyOneRoot'
               /\ rootNode.kind = "nonleaf"
               /\ rootNode.level = 1
               /\ rootNode.keyArray[0] = pages'[nextPage].keyArray[0]
               /\ rootNode.pageNoArray[0] = rootPageNum
               /\ rootNode.pageNoArray[1] = nextPage
               /\ rootNode.numOccupied = 1
      ]_vars

\* C30: insertEntryInternal of (k, c) after a leaf split into an internal
\* node with room: the keys become the old keys plus k, ascending; with j
\* the number of old keys below k, the child at j stays where it was, c is
\* the child at j + 1, the children left of j keep their places and those
\* right of j move up by one; numOccupied grows by one.
C30_InternalInsertFromLeaf ==
    [][(last'.op = "insertEntryInternal" /\ last'.args[3]) =>
           LET old == pages[2]
               new == pages'[2]
               k == last'.args[1]
               c == last'.args[2]
               N == old.numOccupied
               j == Cardinality({x \in KeysOf(old) : x < k})
           IN  /\ new.numOccupied = N + 1
               /\ KeysOf(new) = KeysOf(old) \cup {k}
               /\ NodeAscending(new)
               /\ new.keyArray[j] = k
               /\ new.pageNoArray[j] = old.pageNoArray[j]
               /\ new.pageNoArray[j + 1] = c
               /\ \A m \in 0..(j - 1) : new.pageNoArray[m] = old.pageNoArray[m]
               /\ \A m \in (j + 1)..N : new.pageNoArray[m + 1] = old.pageNoArray[m]
               /\ Cardinality(ChildrenOf(new)) = N + 2
      ]_vars

\* the node is full after a key was put between two others
C30_Witness ==
    /\ last.op = "insertEntryInternal" /\ last.args[3]
    /\ pages[2].numOccupied = wideOccupancy
    /\ pages[2].keyArray[1] = last.args[1]
    /\ pages[2].pageNoArray[2] = last.args[2]

\* C31: insertEntryInternal of (k, c) after the split of an internal node
\* into a node with room: with j the number of old keys below k, c becomes
\* the child at j, left of k, and the child that was at j is the child at
\* j + 1, right of k; the children left of j keep their places, those right
\* of j move up by one, and numOccupied grows by one.
C31_InternalInsertFromInternal ==
    [][(last'.op = "insertEntryInternal" /\ ~last'.args[3]) =>
           LET old == pages[2]
               new == pages'[2]
               k == last'.args[1]
               c == last'.args[2]
               N == old.numOccupied
               j == Cardinality({x \in KeysOf(old) : x < k})
           IN  /\ new.numOccupied = N + 1
               /\ KeysOf(new) = KeysOf(old) \cup {k}
               /\ NodeAscending(new)
               /\ new.keyArray[j] = k
               /\ new.pageNoArray[j] = c
               /\ new.pageNoArray[j + 1] = old.pageNoArray[j]
               /\ \A m \in 0..(j - 1) : new.pageNoArray[m] = old.pageNoArray[m]
               /\ \A m \in (j + 1)..N : new.pageNoArray[m + 1] = old.pageNoArray[m]
               /\ ChildrenOf(new) = ChildrenOf(old) \cup {c}
               /\ Cardinality(ChildrenOf(new)) = N + 2
      ]_vars

\* the level-0 node is full after a key was put between two others
C31_Witness ==
    /\ last.op = "insertEntryInternal" /\ ~last.args[3]
    /\ pages[2].level = 0
    /\ pages[2].numOccupied = wideOccupancy
    /\ pages[2].keyArray[1] = last.args[1]
    /\ pages[2].pageNoArray[1] = last.args[2]

\* ------------------------------------------------- split of an internal node
\* the parent of the leaf the insertEntry being taken goes to
ParentOfTarget ==
    LET visitedNodes == searchEntry(File, InsertedKey, rootPageNum, <<>>).visitedNodes
    IN  visitedNodes[Len(visitedNodes)]

\* the insertEntry being taken splits its leaf and then the parent of the
\* leaf: P is ParentOfTarget, the new leaf is page nextPage and P' is page
\* nextPage + 1
SplitsInternal ==
    /\ last'.op = "insertEntry" /\ inserted' # inserted
    /\ ~onlyOneRoot
    /\ pages[TargetLeaf].numOccupied >= leafOccupancy
    /\ internalFull(pages[ParentOfTarget].numOccupied)

\* C32: when an internal node P is split, P keeps nodeOccupancy / 2 keys
\* and the new node P' receives the other ceil(nodeOccupancy / 2), each
\* with one child more than keys; P' has the level of P; numOccupied of
\* each is the number of keys it holds, all of them keys P held or the
\* incoming key.
C32_InternalSplitHalves ==
    [][SplitsInternal =>
           LET P == pages'[ParentOfTarget]
               Q == pages'[nextPage + 1]
               all == KeysOf(pages[ParentOfTarget]) \cup {pages'[nextPage].keyArray[0]}
           IN  /\ Q.kind = "nonleaf"
               /\ Q.level = pages[ParentOfTarget].level
               /\ P.numOccupied = nodeOccupancy \div 2
               /\ Q.numOccupied = CeilHalf(nodeOccupancy)
               /\ Cardinality(KeysOf(P)) = P.numOccupied /\ KeysOf(P) \subseteq all
               /\ Cardinality(KeysOf(Q)) = Q.numOccupied /\ KeysOf(Q) \subseteq all
               /\ Cardinality(ChildrenOf(P)) = P.numOccupied + 1
               /\ Cardinality(ChildrenOf(Q)) = Q.numOccupied + 1
      ]_vars

\* the median of a set of keys: as many keys below it as half of the rest
Median(S) == CHOOSE x \in S : Cardinality({y \in S : y < x}) = (Cardinality(S) - 1) \div 2

\* the key an internal split hands upward, read from the node that
\* received it: the one key of the parent pointing at P' that was not there
\* before
PropagatedKeys ==
    UNION {KeysOf(pages'[q]) \ KeysOf(pages[q]) :
              q \in {q \in PageIds \ {ParentOfTarget, nextPage + 1} :
                        pages'[q].kind = "nonleaf"
                            /\ (nextPage + 1) \in ChildrenOf(pages'[q])}}

\* C33: an internal split moves the middle key up: the key handed to the
\* level above is the median of P's keys plus the incoming key, neither half
\* holds it, the keys of the halves with it are P's keys plus the incoming
\* key, and the children of the halves are P's children plus the new child.
C33_MiddleKeyMovesUp ==
    [][SplitsInternal =>
           LET old == pages[ParentOfTarget]
               P == pages'[ParentOfTarget]
               Q == pages'[nextPage + 1]
               all == KeysOf(old) \cup {pages'[nextPage].keyArray[0]}
           IN  /\ PropagatedKeys = {Median(all)}
               /\ Median(all) \notin KeysOf(P) \cup KeysOf(Q)
               /\ KeysOf(P) \cup KeysOf(Q) \cup {Median(all)} = all
               /\ ChildrenOf(P) \cup ChildrenOf(Q) = ChildrenOf(old) \cup {nextPage}
               /\ ChildrenOf(P) \cap ChildrenOf(Q) = {}
      ]_vars

\* internal nodes that hold p among their children C[0..N]
ParentsOf(p) ==
    {q \in TreeInternalNodes : p \in ChildrenOf(PageAt(q))}

\* C34: every internal node reachable from the root has numOccupied + 1
\* distinct children, each an allocated node page, and every node but the
\* root is the child of exactly one internal node, in exactly one slot.
C34_ChildPointers ==
    /\ \A q \in TreeInternalNodes :
           LET node == PageAt(q)
           IN  /\ \A i \in 0..node.numOccupied :
                      /\ i \in DOMAIN node.pageNoArray
                      /\ node.pageNoArray[i] \in NodePages
               /\ Cardinality(ChildrenOf(node)) = node.numOccupied + 1
    /\ \A p \in (TreeInternalNodes \cup TreeLeafNodes) \ {rootPageNum} :
           Cardinality(ParentsOf(p)) = 1
    /\ ParentsOf(rootPageNum) = {}

\* C35: when the internal root P splits, the new root has level 0, one key,
\* P' as child 0 and P as child 1; every key under P' is below the root key
\* and every key under P is at or above it; the header and rootPageNum name
\* the new root.
C35_InternalRootSplit ==
    [][(SplitsInternal /\ ParentOfTarget = rootPageNum) =>
           LET rootNode == pages'[rootPageNum']
               P == rootPageNum
               Q == nextPage + 1
           IN  /\ rootPageNum' = nextPage + 2 /\ rootPageNo' = rootPageNum'
               /\ rootNode.kind = "nonleaf"
               /\ rootNode.level = 0
               /\ rootNode.numOccupied = 1
               /\ rootNode.pageNoArray[0] = Q
               /\ rootNode.pageNoArray[1] = P
               /\ \A k \in SubtreeKeys(Q, FALSE, MaxKey)' : k < rootNode.keyArray[0]
               /\ \A k \in SubtreeKeys(P, FALSE, MaxKey)' : k >= rootNode.keyArray[0]
               /\ SubtreeKeys(Q, FALSE, MaxKey)' \cup SubtreeKeys(P, FALSE, MaxKey)'
                      = inserted'
      ]_vars

\* C36: the children of an internal node with level 1 are leaves and the
\* children of one with level 0 are internal nodes, and no page is reached
\* both as a leaf and as an internal node.
C36_Levels ==
    /\ \A q \in TreeInternalNodes :
           /\ PageAt(q).kind = "nonleaf"
           /\ \A c \in ChildrenOf(PageAt(q)) :
                  PageAt(c).kind = (IF PageAt(q).level = 1 THEN "leaf" ELSE "nonleaf")
    /\ \A p \in TreeLeafNodes : PageAt(p).kind = "leaf"
    /\ TreeInternalNodes \cap TreeLeafNodes = {}

\* the (key, rid) pairs of the insertEntry calls made so far
InsertedEntries == {<<k, RidOf(k)>> : k \in inserted}

\* the number of entries held by the leaves in S
RECURSIVE Held(_)
Held(S) ==
    IF S = {} THEN 0
    ELSE LET p == CHOOSE p \in S : TRUE
         IN  PageAt(p).numOccupied + Held(S \ {p})

\* C38: the entries held by the leaves reachable from the root are exactly
\* the inserted (key, rid) pairs, each held once, and so are the entries held
\* by the leaves of the sibling chain from the leftmost leaf.
C38_EntriesPreserved ==
    LET chain == {TreeChain[i] : i \in 1..Len(TreeChain)}
    IN  /\ UNION {Entries(PageAt(p)) : p \in TreeLeafNodes} = InsertedEntries
        /\ Held(TreeLeafNodes) = Cardinality(inserted)
        /\ UNION {Entries(PageAt(p)) : p \in chain} = InsertedEntries
        /\ Held(chain) = Cardinality(inserted)

\* ------------------------------------------------- one scan after another
\* The index holds the keys of two leaves and is queried repeatedly: any
\* startScan, scanNext and endScan in any order, as long as nothing
\* undefined has happened.
RescanKeys == leafOccupancy + 2

InitRescan ==
    /\ metaInfo = IndexMetaInfo(relA, 0, "INTEGER")
    /\ pages = Built(RescanKeys).pages
    /\ nextPage = Built(RescanKeys).nextPage
    /\ rootPageNo = Built(RescanKeys).rootPageNo
    /\ rootPageNum = Built(RescanKeys).rootPageNum
    /\ onlyOneRoot = Built(RescanKeys).onlyOneRoot
    /\ scanExecuting = FALSE
    /\ lowValInt = 0
    /\ highValInt = 0
    /\ lowOp = "GTE"
    /\ highOp = "LTE"
    /\ currentPageNum = INVALID_NUMBER
    /\ nextEntry = 0 - 1
    /\ ub = "no"
    /\ inserted = 1..RescanKeys
    /\ emitted = <<>>
    /\ last = Outcome("insertEntry", "ok", 0, NoArgs, <<>>)
    /\ before = [op |-> "none", err |-> "ok"]

\* bounds of the scans: below the first key or at the first key of the second
\* leaf, and the first key or the last one; any low operator, the two valid
\* high operators
RescanLows == {0, leafOccupancy}
RescanHighs == {1, RescanKeys}

NextRescan ==
    \/ ub = "no" /\ \E lo \in RescanLows, hi \in RescanHighs, lop \in Operator,
                       hop \in {"LT", "LTE"}, garbage \in GarbageKeys :
                         StartScan(lo, lop, hi, hop, garbage)
    \/ ScanNext
    \/ EndScan

SpecRescan == InitRescan /\ [][NextRescan]_vars

\* the scan members of an object on which no scan was ever started
NeverScanned ==
    [scanExecuting |-> FALSE, lowValInt |-> 0, highValInt |-> 0, lowOp |-> "GTE",
     highOp |-> "LTE", currentPageNum |-> INVALID_NUMBER, nextEntry |-> 0 - 1]

\* what of the scan members the calls after a startScan can observe: whether
\* a scan is active and, when one is, its position and its upper bound
Position(sc) ==
    IF sc.scanExecuting
    THEN <<TRUE, sc.currentPageNum, sc.nextEntry, sc.highValInt, sc.highOp>>
    ELSE <<FALSE>>

\* C37: a startScan issued while a scan is active ends that scan and starts
\* the new one; its error and everything the following scanNext and endScan
\* calls can observe are those of the same startScan on the same tree with
\* no scan ever started before, whatever the position of the previous scan.
C37_ScanIndependence ==
    [][(last'.op = "startScan" /\ scanExecuting /\ currentPageNum # INVALID_NUMBER) =>
           \E garbage \in GarbageKeys :
               LET r == startScan(File, NeverScanned, last'.args[1], last'.args[2],
                                  last'.args[3], last'.args[4], garbage)
               IN  /\ last'.err = r.err
                   /\ Position(Scan)' = Position(r.sc)
      ]_vars

\* ------------------------------------------------------- scans terminate
\* a scan that startScan positioned on a leaf is active
Scanning == scanExecuting /\ currentPageNum # INVALID_NUMBER

\* the leaves from the current one along rightSibPageNo
Ahead == ChainPages(currentPageNum, Cardinality(PageIds))

\* the entries from the scan position to the end of the sibling chain
Remaining ==
    IF nextEntry = 0 - 1 THEN 0
    ELSE (pages[currentPageNum].numOccupied - nextEntry)
             + Len(ChainKeys(pages[currentPageNum].rightSibPageNo, Cardinality(PageIds)))

\* C39: every scan terminates.  While a scan started by a successful
\* startScan is active, the rids emitted so far and the entries from its
\* position to the end of the sibling chain number at most the keys of the
\* tree, and the chain ahead visits no leaf twice; a scanNext at a position
\* emits one rid and moves strictly forward, staying on its leaf or entering
\* the right sibling; a scanNext past the last position raises
\* IndexScanCompleted and emits nothing.
C39_ScanTerminates ==
    /\ [](Scanning =>
              /\ Len(emitted) + Remaining <= Cardinality(inserted)
              /\ \A i, j \in 1..Len(Ahead) : i # j => Ahead[i] # Ahead[j])
    /\ [][(Scanning /\ last'.op = "scanNext") =>
              IF nextEntry = 0 - 1
              THEN /\ last'.err = "IndexScanCompleted"
                   /\ emitted' = emitted
                   /\ UNCHANGED <<currentPageNum, nextEntry>>
              ELSE /\ last'.err = "ok"
                   /\ Len(emitted') = Len(emitted) + 1
                   /\ Remaining' < Remaining
                   /\ currentPageNum' \in {currentPageNum,
                                           pages[currentPageNum].rightSibPageNo}
                   /\ currentPageNum' # INVALID_NUMBER
      ]_vars

C39_Witness ==
    /\ Scanning /\ ~onlyOneRoot
    /\ last.op = "scanNext" /\ last.err = "IndexScanCompleted"
    /\ before = [op |-> "scanNext", err |-> "ok"]
    /\ Len(emitted) = Cardinality(inserted)
    /\ currentPageNum # LeftmostLeaf(rootPageNum, onlyOneRoot, MaxKey)

====
